---- MODULE Spec2Model ----
(***************************************************************************)
(* Movie Rating Analyzer (MOVIERATINGANALYZER.py): the batch pipeline      *)
(*   makedirs -> ensure_dataset -> load_and_clean -> explode_genres ->     *)
(*   top5 -> chart_avg_rating_by_genre -> chart_movies_per_year -> 4 CSVs  *)
(* modelled as a state machine over the file system and main's locals.     *)
(*                                                                         *)
(* A string is a sequence of symbols. A symbol is one character; in the    *)
(* bundled sample a whole word (a run of characters holding no comma and   *)
(* no leading or trailing blank) is written as one symbol.                 *)
(* A float64 value is a fixed-point integer in tenths, so 8.8 is 88 and    *)
(* the parsed text "2010.5" is 20105; the input texts hold at most one     *)
(* fractional digit. An Int64 value is a plain integer. A mean is the      *)
(* exact fraction n/d of a sum of tenths and a count.                      *)
(* A cell of a frame is [na, s, n, d]: na for NaN/<NA>, s the text of an   *)
(* object cell, n/d the value of a numeric cell (d = 1 but for a mean).    *)
(* A frame is [columns, rows], a row [idx, cells]: idx is the pandas index *)
(* label, which load_and_clean never resets, so it names the line of the   *)
(* input file the row was read from (counted from 0).                      *)
(***************************************************************************)
EXTENDS Integers, Sequences, FiniteSets, TLC

\* ---------------------------------------------------------------- bounds
MaxRawRows == 2
MaxMovies == 6

\* ------------------------------------------------------------- constants
TopN == 5
ClipLower == 0
ClipUpper == 10

\* a number of whole units as a float64 value (tenths)
Tenths(k) == 10 * k

\* --------------------------------------------------------------- strings
Digits == <<"0", "1", "2", "3", "4", "5", "6", "7", "8", "9">>
Lowers == <<"a", "b", "c", "d", "e", "f", "g", "h", "i", "j", "k", "l", "m",
            "n", "o", "p", "q", "r", "s", "t", "u", "v", "w", "x", "y", "z">>
Uppers == <<"A", "B", "C", "D", "E", "F", "G", "H", "I", "J", "K", "L", "M",
            "N", "O", "P", "Q", "R", "S", "T", "U", "V", "W", "X", "Y", "Z">>

Range(s) == {s[i] : i \in DOMAIN s}

\* the first position of c in seq
IndexOf(seq, c) ==
  CHOOSE i \in DOMAIN seq : seq[i] = c /\ \A j \in 1..(i - 1) : seq[j] # c

RECURSIVE lstrip(_)
lstrip(s) == IF s # <<>> /\ Head(s) = " " THEN lstrip(Tail(s)) ELSE s

RECURSIVE rstrip(_)
rstrip(s) ==
  IF s # <<>> /\ s[Len(s)] = " " THEN rstrip(SubSeq(s, 1, Len(s) - 1)) ELSE s

\* str.strip()
strip(s) == rstrip(lstrip(s))

LowerSet == Range(Lowers)
UpperSet == Range(Uppers)
DigitSet == Range(Digits)

IsCased(c) == c \in LowerSet \cup UpperSet

upper(c) == IF c \in LowerSet THEN Uppers[IndexOf(Lowers, c)] ELSE c

lower(c) == IF c \in UpperSet THEN Lowers[IndexOf(Uppers, c)] ELSE c

\* str.title(): a cased character is upper-cased when it follows an uncased
\* one (or starts the string) and lower-cased otherwise.
title(s) ==
  [i \in DOMAIN s |->
     IF i = 1 \/ ~IsCased(s[i - 1]) THEN upper(s[i]) ELSE lower(s[i])]

\* ---------------------------------------------------------------- numbers
RECURSIVE DigitsValue(_)
DigitsValue(s) ==
  IF s = <<>> THEN 0
  ELSE 10 * DigitsValue(SubSeq(s, 1, Len(s) - 1)) + (IndexOf(Digits, s[Len(s)]) - 1)

AllDigits(s) == s # <<>> /\ \A i \in DOMAIN s : s[i] \in DigitSet

DotAt(s) == IF "." \in Range(s) THEN IndexOf(s, ".") ELSE 0

\* An unsigned decimal literal: digits, or digits "." digit.
IsUnsigned(s) ==
  IF DotAt(s) = 0 THEN AllDigits(s)
  ELSE /\ AllDigits(SubSeq(s, 1, DotAt(s) - 1))
       /\ Len(s) = DotAt(s) + 1
       /\ s[Len(s)] \in DigitSet

UnsignedValue(s) ==
  IF DotAt(s) = 0 THEN Tenths(DigitsValue(s))
  ELSE Tenths(DigitsValue(SubSeq(s, 1, DotAt(s) - 1)))
         + DigitsValue(SubSeq(s, Len(s), Len(s)))

IsNumeric(s) ==
  IF s # <<>> /\ Head(s) = "-" THEN IsUnsigned(Tail(s)) ELSE IsUnsigned(s)

NumericValue(s) ==
  IF Head(s) = "-" THEN 0 - UnsignedValue(Tail(s)) ELSE UnsignedValue(s)

RECURSIVE FormatNat(_)
FormatNat(n) ==
  IF n < 10 THEN <<Digits[n + 1]>>
  ELSE Append(FormatNat(n \div 10), Digits[(n % 10) + 1])

\* to_csv of an int64 cell
FormatInt(n) == IF n < 0 THEN <<"-">> \o FormatNat(0 - n) ELSE FormatNat(n)

\* to_csv of a float64 cell (shortest repr): 8.8 -> "8.8", 9.0 -> "9.0"
FormatFloat(t) ==
  IF t < 0 THEN <<"-">> \o FormatNat((0 - t) \div 10) \o <<".">> \o FormatNat((0 - t) % 10)
  ELSE FormatNat(t \div 10) \o <<".">> \o FormatNat(t % 10)

\* ------------------------------------------------------------------ cells
NaCell == [na |-> TRUE, s |-> <<>>, n |-> 0, d |-> 1]
StrCell(x) == [na |-> FALSE, s |-> x, n |-> 0, d |-> 1]
NumCell(v) == [na |-> FALSE, s |-> <<>>, n |-> v, d |-> 1]
MeanCell(sum, count) == [na |-> FALSE, s |-> <<>>, n |-> sum, d |-> count]

\* ------------------------------------------------------------------ frames
NoFrame == [columns |-> <<>>, rows |-> <<>>]

Title == <<"T", "i", "t", "l", "e">>
Genre == <<"G", "e", "n", "r", "e">>
Rating == <<"R", "a", "t", "i", "n", "g">>
Year == <<"Y", "e", "a", "r">>
Count == <<"C", "o", "u", "n", "t">>

\* the list literal of lines 57 and 69
Canonical == <<Title, Genre, Rating, Year>>

\* "c in df.columns"
HasColumn(df, c) == c \in Range(df.columns)

ColPos(df, c) == CHOOSE j \in DOMAIN df.columns : df.columns[j] = c

\* df[c] at one row
Cell(df, row, c) == row.cells[ColPos(df, c)]

\* df[cols]: the named columns, in the order asked for
Project(df, cols) ==
  [columns |-> cols,
   rows |-> [i \in DOMAIN df.rows |->
               [idx |-> df.rows[i].idx,
                cells |-> [j \in DOMAIN cols |-> Cell(df, df.rows[i], cols[j])]]]]

\* df[c] = f(df[c]), cell by cell
MapColumn(df, c, F(_)) ==
  [columns |-> df.columns,
   rows |-> [i \in DOMAIN df.rows |->
               [idx |-> df.rows[i].idx,
                cells |-> [j \in DOMAIN df.columns |->
                             IF j = ColPos(df, c) THEN F(df.rows[i].cells[j])
                             ELSE df.rows[i].cells[j]]]]]

Keep(rows, P(_)) == SelectSeq(rows, P)

\* --------------------------------------------------------------- read_csv
\* pandas' default na_values, as far as the symbols of the inputs spell them
NaValues ==
  {<<>>, <<"N", "/", "A">>, <<"N", "A">>, <<"N", "a", "N">>, <<"n", "a", "n">>,
   <<"n", "/", "a">>, <<"N", "U", "L", "L">>, <<"n", "u", "l", "l">>,
   <<"N", "o", "n", "e">>}

\* One field of the file. A field that reads as a number is kept as its text
\* here and valued by to_numeric; the inputs hold no text column that reads
\* as a number.
ReadCell(text) == IF text \in NaValues THEN NaCell ELSE StrCell(text)

\* pd.read_csv(path): a file is [exists, header, rows], rows of fields
read_csv(file) ==
  [columns |-> file.header,
   rows |-> [i \in DOMAIN file.rows |->
               [idx |-> i - 1,
                cells |-> [j \in DOMAIN file.header |-> ReadCell(file.rows[i][j])]]]]

\* --------------------------------------------------------- load_and_clean
\* df.columns = [c.strip().title() for c in df.columns]
NormalizeColumns(df) ==
  [columns |-> [j \in DOMAIN df.columns |-> title(strip(df.columns[j]))],
   rows |-> df.rows]

\* keep = [c for c in [...] if c in df.columns]
KeepColumns(df) == SelectSeq(Canonical, LAMBDA c : HasColumn(df, c))

NanText == <<"n", "a", "n">>

\* astype(str) on one cell: NaN becomes the text "nan" up to pandas 2 and
\* stays missing from pandas 3 on (keepsNA)
AstypeStr(cell, keepsNA) ==
  IF cell.na THEN (IF keepsNA THEN NaCell ELSE StrCell(NanText)) ELSE StrCell(cell.s)

\* .str.strip() on one cell
StrStrip(cell) == IF cell.na THEN NaCell ELSE StrCell(strip(cell.s))

AstypeStrStrip(cell, keepsNA) == StrStrip(AstypeStr(cell, keepsNA))

\* pd.to_numeric(errors="coerce") on one cell
to_numeric(cell) ==
  IF cell.na THEN NaCell
  ELSE IF IsNumeric(cell.s) THEN NumCell(NumericValue(cell.s)) ELSE NaCell

\* astype("Int64") raises TypeError (cannot safely cast non-equivalent
\* float64 to int64) when a value of the column is not a whole number
IsWhole(cell) == cell.na \/ cell.n % 10 = 0

AstypeInt64(cell) == IF cell.na THEN NaCell ELSE NumCell(cell.n \div 10)

\* clip with the upper bound left out
clip_lower_only(cell) ==
  IF cell.n < Tenths(ClipLower) THEN NumCell(Tenths(ClipLower)) ELSE cell

\* Series.clip(0, 10)
clip(cell) ==
  IF cell.n < Tenths(ClipLower) THEN NumCell(Tenths(ClipLower))
  ELSE IF cell.n > Tenths(ClipUpper) THEN NumCell(Tenths(ClipUpper))
  ELSE cell

StripText(df, keepsNA) ==
  LET t == IF HasColumn(df, Title)
           THEN MapColumn(df, Title, LAMBDA c : AstypeStrStrip(c, keepsNA)) ELSE df
  IN  IF HasColumn(t, Genre)
      THEN MapColumn(t, Genre, LAMBDA c : AstypeStrStrip(c, keepsNA)) ELSE t

RatingToNumeric(df) ==
  IF HasColumn(df, Rating) THEN MapColumn(df, Rating, to_numeric) ELSE df

YearToNumeric(df) ==
  IF HasColumn(df, Year) THEN MapColumn(df, Year, to_numeric) ELSE df

YearCastFails(df) ==
  /\ HasColumn(df, Year)
  /\ \E i \in DOMAIN df.rows : ~IsWhole(Cell(df, df.rows[i], Year))

\* dropna(subset=[...]) raises KeyError when the frame lacks a named column
DropnaFails(df) == \E j \in DOMAIN Canonical : ~HasColumn(df, Canonical[j])

dropna(df) ==
  [columns |-> df.columns,
   rows |-> Keep(df.rows,
                 LAMBDA r : \A j \in DOMAIN Canonical : ~Cell(df, r, Canonical[j]).na)]

\* load_and_clean(path): [ok, error, df]
load_and_clean(file, keepsNA) ==
  LET raw == NormalizeColumns(read_csv(file))
      kept == Project(raw, KeepColumns(raw))
      text == StripText(kept, keepsNA)
      nums == YearToNumeric(RatingToNumeric(text))
  IN  IF YearCastFails(nums)
      THEN [ok |-> FALSE, error |-> "TypeError", df |-> NoFrame]
      ELSE LET ints == IF HasColumn(nums, Year)
                       THEN MapColumn(nums, Year, AstypeInt64) ELSE nums
           IN  IF DropnaFails(ints)
               THEN [ok |-> FALSE, error |-> "KeyError", df |-> NoFrame]
               ELSE [ok |-> TRUE, error |-> "none",
                     df |-> MapColumn(dropna(ints), Rating, clip)]

\* ---------------------------------------------------------- explode_genres
\* str.split(",")
RECURSIVE split(_)
split(s) ==
  IF "," \notin Range(s) THEN <<s>>
  ELSE <<SubSeq(s, 1, IndexOf(s, ",") - 1)>>
         \o split(SubSeq(s, IndexOf(s, ",") + 1, Len(s)))

\* .str.split(",") on one cell: the list of parts (NaN stays one NaN)
SplitCell(cell) ==
  IF cell.na THEN <<NaCell>>
  ELSE [k \in DOMAIN split(cell.s) |-> StrCell(split(cell.s)[k])]

\* one row of tmp.explode("Genre") per part, the index label repeated
ExplodeRow(df, row) ==
  [k \in DOMAIN SplitCell(Cell(df, row, Genre)) |->
     [idx |-> row.idx,
      cells |-> [j \in DOMAIN df.columns |->
                   IF j = ColPos(df, Genre)
                   THEN SplitCell(Cell(df, row, Genre))[k]
                   ELSE row.cells[j]]]]

RECURSIVE ExplodeRows(_, _)
ExplodeRows(df, rows) ==
  IF rows = <<>> THEN <<>>
  ELSE ExplodeRow(df, Head(rows)) \o ExplodeRows(df, Tail(rows))

\* line 80 left out: empty parts stay
AnyGenre(df, row) == TRUE

NonEmptyGenre(df, row) == Cell(df, row, Genre) # StrCell(<<>>)

explode_genres(df, keepsNA) ==
  LET asText == MapColumn(df, Genre, LAMBDA c : AstypeStr(c, keepsNA))
      exploded == [columns |-> df.columns, rows |-> ExplodeRows(asText, asText.rows)]
      stripped == MapColumn(exploded, Genre, StrStrip)
  IN  [columns |-> df.columns,
       rows |-> Keep(stripped.rows, LAMBDA r : NonEmptyGenre(stripped, r))]

\* ------------------------------------------------------------ sort_values
\* numeric cells compare by value
NumLess(a, b) == a.n * b.d < b.n * a.d

\* code-point order of the symbols genre labels are spelt with; a word of the
\* sample sorts where its spelling does among single characters
Collation ==
  <<" ", "-", "A", "Action", "Adventure", "Animation", "B", "C", "Comedy",
    "Crime", "D", "Drama", "E", "F", "Family", "G", "H", "I", "J", "K", "L",
    "M", "Music", "Musical", "N", "O", "P", "Q", "R", "Romance", "S", "Sci-Fi",
    "Sport", "Superhero", "T", "Thriller", "U", "V", "W", "X", "Y", "Z">>
  \o Lowers

Ord(c) == IndexOf(Collation, c)

RECURSIVE LexLess(_, _)
LexLess(a, b) ==
  IF b = <<>> THEN FALSE
  ELSE IF a = <<>> THEN TRUE
  ELSE IF Head(a) = Head(b) THEN LexLess(Tail(a), Tail(b))
  ELSE Ord(Head(a)) < Ord(Head(b))

TextLess(a, b) == LexLess(a.s, b.s)

\* The permutation sorting the first k keys: position i holds the place of
\* the key that comes i-th. Equal keys keep their order of appearance when
\* the sort is stable; the default kind="quicksort" leaves their order to
\* the numpy build, of which the model keeps two: in order of appearance,
\* and reversed (tiesReversed).
RECURSIVE Argsort(_, _, _, _)
Argsort(keys, k, ascending, tiesReversed) ==
  IF k = 0 THEN <<>>
  ELSE LET prev == Argsort(keys, k - 1, ascending, tiesReversed)
           first(j) == IF ascending THEN NumLess(keys[j], keys[k])
                       ELSE NumLess(keys[k], keys[j])
           tied(j) == ~NumLess(keys[j], keys[k]) /\ ~NumLess(keys[k], keys[j])
           ahead == Cardinality({j \in 1..(k - 1) :
                                   first(j) \/ (tied(j) /\ ~tiesReversed)})
       IN  SubSeq(prev, 1, ahead) \o <<k>> \o SubSeq(prev, ahead + 1, k - 1)

\* df.sort_values(c, ascending=...)
sort_values(df, c, ascending, tiesReversed) ==
  LET keys == [i \in DOMAIN df.rows |-> Cell(df, df.rows[i], c)]
      perm == Argsort(keys, Len(keys), ascending, tiesReversed)
  IN  [columns |-> df.columns, rows |-> [i \in DOMAIN perm |-> df.rows[perm[i]]]]

\* df.head(n)
head(df, n) ==
  [columns |-> df.columns,
   rows |-> SubSeq(df.rows, 1, IF Len(df.rows) < n THEN Len(df.rows) ELSE n)]

\* line 124 with ascending=False left out
top5_ascending(df, tiesReversed) ==
  Project(head(sort_values(df, Rating, TRUE, tiesReversed), TopN),
          <<Title, Rating, Year>>)

\* line 124
top5_of(df, tiesReversed) ==
  Project(head(sort_values(df, Rating, FALSE, tiesReversed), TopN),
          <<Title, Rating, Year>>)

\* ----------------------------------------------------------------- groupby
\* the group keys of df.groupby(c), sorted (sort=True)
GroupKeys(df, c, Less(_, _)) ==
  LET S == {Cell(df, df.rows[i], c) : i \in DOMAIN df.rows}
  IN  [i \in 1..Cardinality(S) |->
         CHOOSE k \in S : Cardinality({x \in S : Less(x, k)}) = i - 1]

Group(df, c, k) == Keep(df.rows, LAMBDA r : Cell(df, r, c) = k)

RECURSIVE SumOf(_, _, _)
SumOf(df, rows, c) ==
  IF rows = <<>> THEN 0 ELSE Cell(df, Head(rows), c).n + SumOf(df, Tail(rows), c)

\* exp.groupby("Genre", as_index=False)["Rating"].mean()
groupby_mean(exp) ==
  LET keys == GroupKeys(exp, Genre, TextLess)
  IN  [columns |-> <<Genre, Rating>>,
       rows |-> [i \in DOMAIN keys |->
                   [idx |-> i - 1,
                    cells |-> <<keys[i],
                                MeanCell(SumOf(exp, Group(exp, Genre, keys[i]), Rating),
                                         Len(Group(exp, Genre, keys[i])))>>]]]

\* lines 85-89
genre_avg_of(exp, tiesReversed) ==
  sort_values(groupby_mean(exp), Rating, FALSE, tiesReversed)

\* df.groupby("Year").size().reset_index(name="Count")
groupby_size(df) ==
  LET keys == GroupKeys(df, Year, NumLess)
  IN  [columns |-> <<Year, Count>>,
       rows |-> [i \in DOMAIN keys |->
                   [idx |-> i - 1,
                    cells |-> <<keys[i], NumCell(Len(Group(df, Year, keys[i])))>>]]]

\* line 103 sorting the years downwards
per_year_descending(df, tiesReversed) ==
  sort_values(groupby_size(df), Year, FALSE, tiesReversed)

\* line 103
per_year_of(df, tiesReversed) ==
  sort_values(groupby_size(df), Year, TRUE, tiesReversed)

\* ---------------------------------------------------------------- to_csv
\* frame.to_csv(path, index=False): the header and the rows without their
\* index labels. Cells of the output files are kept as values: the text
\* written is a function of the value.
to_csv(df) ==
  [exists |-> TRUE,
   header |-> df.columns,
   rows |-> [i \in DOMAIN df.rows |-> df.rows[i].cells]]

NoFile == [exists |-> FALSE, header |-> <<>>, rows |-> <<>>]

\* the bars plt.bar draws and savefig writes: (x, height) in frame order
savefig(df, X(_)) ==
  [exists |-> TRUE,
   header |-> df.columns,
   rows |-> [i \in DOMAIN df.rows |->
               <<X(df.rows[i].cells[1]), df.rows[i].cells[2]>>]]

\* per_year["Year"].astype(str)
YearLabel(cell) == StrCell(FormatInt(cell.n))

\* --------------------------------------------------------- ensure_dataset
\* the tuples of lines 28-47: title, genre, rating (tenths), year
sample ==
  << <<<<"Inception">>, <<"Sci-Fi">>, 88, 2010>>,
     <<<<"Titanic">>, <<"Romance", ",", " ", "Drama">>, 78, 1997>>,
     <<<<"Interstellar">>, <<"Sci-Fi", ",", " ", "Drama">>, 86, 2014>>,
     <<<<"The Dark Knight">>, <<"Action", ",", " ", "Crime">>, 90, 2008>>,
     <<<<"Avengers: Endgame">>, <<"Action", ",", " ", "Superhero">>, 84, 2019>>,
     <<<<"La La Land">>, <<"Romance", ",", " ", "Musical">>, 80, 2016>>,
     <<<<"Parasite">>, <<"Thriller", ",", " ", "Drama">>, 86, 2019>>,
     <<<<"Mad Max: Fury Road">>, <<"Action", ",", " ", "Adventure">>, 81, 2015>>,
     <<<<"The Godfather">>, <<"Crime", ",", " ", "Drama">>, 92, 1972>>,
     <<<<"Toy Story 3">>, <<"Animation", ",", " ", "Family">>, 83, 2010>>,
     <<<<"Whiplash">>, <<"Drama", ",", " ", "Music">>, 85, 2014>>,
     <<<<"Coco">>, <<"Animation", ",", " ", "Family">>, 84, 2017>>,
     <<<<"Dangal">>, <<"Drama", ",", " ", "Sport">>, 84, 2016>>,
     <<<<"3 Idiots">>, <<"Comedy", ",", " ", "Drama">>, 84, 2009>>,
     <<<<"Joker">>, <<"Crime", ",", " ", "Drama">>, 85, 2019>>,
     <<<<"The Shawshank Redemption">>, <<"Drama">>, 93, 1994>>,
     <<<<"Forrest Gump">>, <<"Drama", ",", " ", "Romance">>, 88, 1994>>,
     <<<<"RRR">>, <<"Action", ",", " ", "Drama">>, 80, 2022>>,
     <<<<"K.G.F: Chapter 2">>, <<"Action", ",", " ", "Crime">>, 82, 2022>>,
     <<<<"The Avengers">>, <<"Action", ",", " ", "Superhero">>, 80, 2012>> >>

\* pd.DataFrame(sample, columns=[...]).to_csv(path, index=False)
SampleFile ==
  [exists |-> TRUE,
   header |-> <<Title, Genre, Rating, Year>>,
   rows |-> [i \in DOMAIN sample |->
               <<sample[i][1], sample[i][2],
                 FormatFloat(sample[i][3]), FormatInt(sample[i][4])>>]]

\* ensure_dataset without the early return of lines 24-25
ensure_dataset_always(file) == SampleFile

\* the file at path after ensure_dataset(path)
ensure_dataset(file) == IF file.exists THEN file ELSE SampleFile

\* ------------------------------------------------------------------ state
VARIABLES
  astypeStrKeepsNA,  \* the pandas build: astype(str) keeps NaN missing
  tiesReversed,      \* the numpy build: quicksort's order of equal keys
  unwritable,        \* the chart file savefig cannot write, or "none"
  inputFile,         \* movies.csv (DATA_PATH)
  dirExists,         \* the folder OK exists
  outFiles,          \* the files of the folder OK, by name
  pc,                \* the statement of main about to run
  run,               \* 1: the first invocation of main, 2: the second
  error,             \* the exception that ended this run, or "none"
  failedAt,          \* the statement that raised it, or "none"
  df_clean, df_exploded, top5, genre_avg, per_year,   \* main's locals
  written,           \* the files this run has written, in order
  startFile,         \* movies.csv as this run found it
  firstRun           \* the files of the folder OK when the first run ended

vars ==
  <<astypeStrKeepsNA, tiesReversed, unwritable, inputFile, dirExists, outFiles,
    pc, run, error, failedAt, df_clean, df_exploded, top5, genre_avg, per_year,
    written, startFile, firstRun>>

build == <<astypeStrKeepsNA, tiesReversed, unwritable>>
locals == <<df_clean, df_exploded, top5, genre_avg, per_year>>

PngGenre == "avg_rating_by_genre.png"
PngYear == "movies_per_year.png"
CsvDetails == "Details_movies.csv"
CsvGenre == "genre_avg_ratings.csv"
CsvTop5 == "top5_movies.csv"
CsvYear == "movies_per_year.csv"
DataPath == "movies.csv"

Pngs == {PngGenre, PngYear}
Csvs == {CsvDetails, CsvGenre, CsvTop5, CsvYear}
OutNames == Pngs \cup Csvs

\* an exception swallowed: the run goes on
GotoAnyway(ok, next) == next

\* the statement after stmt when it returns, "failed" when it raises
Goto(ok, next) == IF ok THEN next ELSE "failed"

\* os.makedirs(OK, exist_ok=True)
Makedirs ==
  /\ pc = "makedirs"
  /\ dirExists' = TRUE
  /\ pc' = "ensure_dataset"
  /\ UNCHANGED <<build, inputFile, outFiles, run, error, failedAt, locals,
                 written, startFile, firstRun>>

\* ensure_dataset(DATA_PATH)
EnsureDataset ==
  /\ pc = "ensure_dataset"
  /\ inputFile' = ensure_dataset(inputFile)
  /\ written' = IF inputFile.exists THEN written ELSE Append(written, DataPath)
  /\ pc' = "load_and_clean"
  /\ UNCHANGED <<build, dirExists, outFiles, run, error, failedAt, locals,
                 startFile, firstRun>>

\* df_clean = load_and_clean(DATA_PATH)
LoadAndClean ==
  /\ pc = "load_and_clean"
  /\ \E r \in {load_and_clean(inputFile, astypeStrKeepsNA)} :
         /\ df_clean' = r.df
         /\ error' = r.error
         /\ failedAt' = IF r.ok THEN "none" ELSE "load_and_clean"
         /\ pc' = Goto(r.ok, "explode_genres")
  /\ UNCHANGED <<build, inputFile, dirExists, outFiles, run, df_exploded, top5,
                 genre_avg, per_year, written, startFile, firstRun>>

\* df_exploded = explode_genres(df_clean)
ExplodeGenres ==
  /\ pc = "explode_genres"
  /\ df_exploded' = explode_genres(df_clean, astypeStrKeepsNA)
  /\ pc' = "top5"
  /\ UNCHANGED <<build, inputFile, dirExists, outFiles, run, error, failedAt,
                 df_clean, top5, genre_avg, per_year, written, startFile, firstRun>>

\* top5 = df_clean.sort_values("Rating", ascending=False).head(5)[[...]]
Top5 ==
  /\ pc = "top5"
  /\ top5' = top5_of(df_clean, tiesReversed)
  /\ pc' = "chart_avg_rating_by_genre"
  /\ UNCHANGED <<build, inputFile, dirExists, outFiles, run, error, failedAt,
                 df_clean, df_exploded, genre_avg, per_year, written, startFile,
                 firstRun>>

\* plt.savefig(out_path) raises when the folder is missing or the file
\* cannot be written
CanSave(name) == dirExists /\ unwritable # name

\* genre_avg = chart_avg_rating_by_genre(df_exploded, ".../avg_rating_by_genre.png")
ChartAvgRatingByGenre ==
  /\ pc = "chart_avg_rating_by_genre"
  /\ \E g \in {genre_avg_of(df_exploded, tiesReversed)} :
         IF CanSave(PngGenre)
         THEN /\ genre_avg' = g
              /\ outFiles' = [outFiles EXCEPT ![PngGenre] = savefig(g, LAMBDA c : c)]
              /\ written' = Append(written, PngGenre)
              /\ UNCHANGED <<error, failedAt>>
         ELSE /\ error' = "OSError"
              /\ failedAt' = "chart_avg_rating_by_genre"
              /\ UNCHANGED <<genre_avg, outFiles, written>>
  /\ pc' = Goto(CanSave(PngGenre), "chart_movies_per_year")
  /\ UNCHANGED <<build, inputFile, dirExists, run, df_clean, df_exploded, top5,
                 per_year, startFile, firstRun>>

\* per_year = chart_movies_per_year(df_clean, ".../movies_per_year.png")
ChartMoviesPerYear ==
  /\ pc = "chart_movies_per_year"
  /\ \E y \in {per_year_of(df_clean, tiesReversed)} :
         IF CanSave(PngYear)
         THEN /\ per_year' = y
              /\ outFiles' = [outFiles EXCEPT ![PngYear] = savefig(y, YearLabel)]
              /\ written' = Append(written, PngYear)
              /\ UNCHANGED <<error, failedAt>>
         ELSE /\ error' = "OSError"
              /\ failedAt' = "chart_movies_per_year"
              /\ UNCHANGED <<per_year, outFiles, written>>
  /\ pc' = Goto(CanSave(PngYear), "export_details")
  /\ UNCHANGED <<build, inputFile, dirExists, run, df_clean, df_exploded, top5,
                 genre_avg, startFile, firstRun>>

\* one frame.to_csv(os.path.join(OK, name), index=False) of lines 130-133
Export(at, name, df, next) ==
  /\ pc = at
  /\ outFiles' = [outFiles EXCEPT ![name] = to_csv(df)]
  /\ written' = Append(written, name)
  /\ pc' = next
  /\ UNCHANGED <<build, inputFile, dirExists, run, error, failedAt, locals,
                 startFile, firstRun>>

ExportDetails == Export("export_details", CsvDetails, df_clean, "export_genre")
ExportGenre == Export("export_genre", CsvGenre, genre_avg, "export_top5")
ExportTop5 == Export("export_top5", CsvTop5, top5, "export_year")
ExportYear == Export("export_year", CsvYear, per_year, "done")

Ended == pc \in {"done", "failed"}

\* the script is run a second time on what the first run left
Rerun ==
  /\ Ended
  /\ run = 1
  /\ run' = 2
  /\ firstRun' = outFiles
  /\ startFile' = inputFile
  /\ pc' = "makedirs"
  /\ error' = "none"
  /\ failedAt' = "none"
  /\ written' = <<>>
  /\ df_clean' = NoFrame
  /\ df_exploded' = NoFrame
  /\ top5' = NoFrame
  /\ genre_avg' = NoFrame
  /\ per_year' = NoFrame
  /\ UNCHANGED <<build, inputFile, dirExists, outFiles>>

NextOnce ==
  \/ Makedirs
  \/ EnsureDataset
  \/ LoadAndClean
  \/ ExplodeGenres
  \/ Top5
  \/ ChartAvgRatingByGenre
  \/ ChartMoviesPerYear
  \/ ExportDetails
  \/ ExportGenre
  \/ ExportTop5
  \/ ExportYear

Next ==
  \/ Makedirs
  \/ EnsureDataset
  \/ LoadAndClean
  \/ ExplodeGenres
  \/ Top5
  \/ ChartAvgRatingByGenre
  \/ ChartMoviesPerYear
  \/ ExportDetails
  \/ ExportGenre
  \/ ExportTop5
  \/ ExportYear
  \/ Rerun

\* ------------------------------------------------------------------ inputs
TxtA == <<"a">>
TxtB == <<"b">>
TxtC == <<"c">>
TxtPadB == <<" ", "b", " ">>
GenX == <<"x">>
GenXY == <<"x", ",", " ", "y">>
GenYBlank == <<"y", ",", " ">>
GenPadXX == <<" ", "x", " ", ",", "y", ",", "x">>
Txt75 == <<"7", ".", "5">>
Txt80 == <<"8", ".", "0">>
Txt95 == <<"9", ".", "5">>
Txt15 == <<"1", "5">>
TxtMinus3 == <<"-", "3">>
TxtNA == <<"N", "/", "A">>
Txt2019 == <<"2", "0", "1", "9">>
Txt2020 == <<"2", "0", "2", "0">>
TxtAbc == <<"a", "b", "c">>
Txt2010p5 == <<"2", "0", "1", "0", ".", "5">>
Empty == <<>>

\* lines of a file with the canonical header: well-formed ones, and one for
\* each way a line can be malformed
RawRowPool ==
  { <<TxtA, GenXY, Txt75, Txt2020>>,
    <<TxtPadB, GenPadXX, Txt95, Txt2019>>,
    <<Empty, GenX, Txt75, Txt2020>>,
    <<TxtA, Empty, Txt75, Txt2020>>,
    <<TxtA, GenX, TxtNA, Txt2020>>,
    <<TxtA, GenX, Empty, Txt2020>>,
    <<TxtA, GenX, Txt75, TxtAbc>>,
    <<TxtA, GenX, Txt75, Empty>>,
    <<TxtA, GenX, Txt75, Txt2010p5>>,
    <<TxtB, GenYBlank, Txt15, Txt2019>>,
    <<TxtB, GenX, TxtMinus3, Txt2019>> }

\* well-formed lines: two titles tied on rating, one rated higher
MoviePool ==
  { <<TxtA, GenXY, Txt80, Txt2020>>,
    <<TxtB, GenYBlank, Txt80, Txt2019>>,
    <<TxtC, GenPadXX, Txt95, Txt2020>> }

SeqsUpTo(S, n) == UNION {[1..k -> S] : k \in 0..n}

\* headers as a file may spell them: padded and in any case with a column
\* the script does not know, reordered, and lacking a canonical column
HdrVotes == <<"V", "o", "t", "e", "s">>
HeaderPool ==
  { << <<" ", "t", "i", "t", "l", "e">>, <<"G", "E", "N", "R", "E">>, HdrVotes,
       <<"r", "a", "t", "i", "n", "g", " ">>, Year >>,
    <<Year, Title, Rating, Genre>>,
    <<Title, Genre, Rating>>,
    <<Title, Rating, Year>>,
    <<Genre, <<"y", "e", "a", "r">>, <<"T", "I", "T", "L", "E">> >> }

\* the field a well-formed line holds under a header name
FieldFor(name) ==
  LET c == title(strip(name))
  IN  IF c = Title THEN TxtA
      ELSE IF c = Genre THEN GenXY
      ELSE IF c = Rating THEN Txt15
      ELSE IF c = Year THEN Txt2020
      ELSE <<"7">>

HeaderFiles ==
  { [exists |-> TRUE, header |-> h,
     rows |-> [i \in 1..k |-> [j \in DOMAIN h |-> FieldFor(h[j])]]] :
       h \in HeaderPool, k \in 0..1 }

RawFiles ==
  { [exists |-> TRUE, header |-> Canonical, rows |-> rs] :
       rs \in SeqsUpTo(RawRowPool, MaxRawRows) }

MovieFiles ==
  { [exists |-> TRUE, header |-> Canonical, rows |-> rs] :
       rs \in SeqsUpTo(MoviePool, MaxMovies) }

InitFrom(files, blocked) ==
  /\ astypeStrKeepsNA \in BOOLEAN
  /\ tiesReversed \in BOOLEAN
  /\ unwritable \in blocked
  /\ inputFile \in files
  /\ startFile = inputFile
  /\ dirExists = FALSE
  /\ outFiles = [f \in OutNames |-> NoFile]
  /\ firstRun = [f \in OutNames |-> NoFile]
  /\ pc = "makedirs"
  /\ run = 1
  /\ error = "none"
  /\ failedAt = "none"
  /\ written = <<>>
  /\ df_clean = NoFrame
  /\ df_exploded = NoFrame
  /\ top5 = NoFrame
  /\ genre_avg = NoFrame
  /\ per_year = NoFrame

\* no file, or a short file of any lines under any header; either chart
\* file may be unwritable
Init == InitFrom({NoFile} \cup HeaderFiles \cup RawFiles, {"none", PngGenre, PngYear})

\* a longer file of well-formed lines, every output writable
InitMovies == InitFrom(MovieFiles, {"none"})

\* main run twice
Spec == Init /\ [][Next]_vars

\* main run once
SpecMovies == InitMovies /\ [][NextOnce]_vars

\* ================================================================= claims
Stages ==
  <<"makedirs", "ensure_dataset", "load_and_clean", "explode_genres", "top5",
    "chart_avg_rating_by_genre", "chart_movies_per_year", "export_details",
    "export_genre", "export_top5", "export_year", "done">>

\* this run has executed the statement and it returned
Passed(stmt) ==
  IF pc = "failed" THEN IndexOf(Stages, failedAt) > IndexOf(Stages, stmt)
  ELSE IndexOf(Stages, pc) > IndexOf(Stages, stmt)

\* load_and_clean has returned or raised in this run
LoadEnded == Passed("load_and_clean") \/ failedAt = "load_and_clean"

\* the header of the input file names the column, whatever its case and padding
Names(j, c) == title(strip(inputFile.header[j])) = c
InHeader(c) == \E j \in DOMAIN inputFile.header : Names(j, c)
HasAllColumns == \A j \in DOMAIN Canonical : InHeader(Canonical[j])

\* the field of line k (counted from 0) of the input file under column c
RawField(k, c) ==
  inputFile.rows[k + 1][CHOOSE j \in DOMAIN inputFile.header : Names(j, c)]

Lines == 0..(Len(inputFile.rows) - 1)
CleanIdx == {df_clean.rows[i].idx : i \in DOMAIN df_clean.rows}
RatingOf(df, row) == Cell(df, row, Rating).n
YearOf(df, row) == Cell(df, row, Year).n

\* C1: every line of the input file with an empty Title, Genre, Rating or
\* Year field is absent from the frame load_and_clean returns.
C1_MissingRowsDropped ==
  Passed("load_and_clean") =>
    \A k \in CleanIdx : \A j \in DOMAIN Canonical : RawField(k, Canonical[j]) # <<>>

IsIntegerText(t) == IsNumeric(t) /\ NumericValue(t) % 10 = 0
Unparsable(k) == ~IsNumeric(RawField(k, Rating)) \/ ~IsIntegerText(RawField(k, Year))
WellFormed(k) ==
  /\ RawField(k, Title) \notin NaValues
  /\ RawField(k, Genre) \notin NaValues
  /\ IsNumeric(RawField(k, Rating))
  /\ IsIntegerText(RawField(k, Year))

\* C2: on a file with the four columns load_and_clean does not fail; a line
\* whose Rating is no number or whose Year is no integer is left out of the
\* frame it returns, and every well-formed line is in it.
C2_UnparsableRowsDropped ==
  (LoadEnded /\ HasAllColumns) =>
    /\ failedAt # "load_and_clean"
    /\ \A k \in Lines : Unparsable(k) => k \notin CleanIdx
    /\ \A k \in Lines : WellFormed(k) => k \in CleanIdx

ParsedRating(k) == NumericValue(RawField(k, Rating))

\* C3: in the frame load_and_clean returns every Rating is within [0, 10]: a
\* parsed rating below 0 is 0, one above 10 is 10, one within is unchanged.
C3_RatingsClamped ==
  Passed("load_and_clean") =>
    \A i \in DOMAIN df_clean.rows :
      LET r == RatingOf(df_clean, df_clean.rows[i])
          raw == ParsedRating(df_clean.rows[i].idx)
      IN  /\ 0 <= r /\ r <= 100
          /\ raw < 0 => r = 0
          /\ raw > 100 => r = 100
          /\ (0 <= raw /\ raw <= 100) => r = raw

\* a frame returned with one rating clamped down to 10 and one up to 0
C3_Witness ==
  /\ Passed("load_and_clean")
  /\ \E i, j \in DOMAIN df_clean.rows :
       /\ ParsedRating(df_clean.rows[i].idx) > 100
       /\ RatingOf(df_clean, df_clean.rows[i]) = 100
       /\ ParsedRating(df_clean.rows[j].idx) < 0
       /\ RatingOf(df_clean, df_clean.rows[j]) = 0

Top5Idx == {top5.rows[i].idx : i \in DOMAIN top5.rows}
LeftOut == {i \in DOMAIN df_clean.rows : df_clean.rows[i].idx \notin Top5Idx}

\* C4: top5 is built with a stable sort: rows of equal Rating stand in top5
\* in the order of the input, and of the rows tied with the last row of top5
\* the ones kept are the earliest of the input.
C4_Top5Stable ==
  Passed("top5") =>
    /\ \A i, j \in DOMAIN top5.rows :
         (i < j /\ RatingOf(top5, top5.rows[i]) = RatingOf(top5, top5.rows[j]))
           => top5.rows[i].idx < top5.rows[j].idx
    /\ \A k \in LeftOut : \A i \in DOMAIN top5.rows :
         RatingOf(top5, top5.rows[i]) = RatingOf(df_clean, df_clean.rows[k])
           => top5.rows[i].idx < df_clean.rows[k].idx

\* C5: load_and_clean returns a frame of the canonical columns the header
\* names, in canonical order, also when the header lacks one of the four.
C5_MissingColumnTolerated ==
  (LoadEnded /\ error # "TypeError") =>
    /\ failedAt # "load_and_clean"
    /\ df_clean.columns = SelectSeq(Canonical, InHeader)

\* C6: top5 has min(5, n) rows, each a row of the n-row cleaned frame shown
\* by Title, Rating and Year, in non-increasing order of Rating, and no row
\* left out is rated above a row of top5.
C6_Top5Size ==
  Passed("top5") =>
    /\ Len(top5.rows) = (IF Len(df_clean.rows) < 5 THEN Len(df_clean.rows) ELSE 5)
    /\ Cardinality(Top5Idx) = Len(top5.rows)
    /\ \A i \in DOMAIN top5.rows : \E k \in DOMAIN df_clean.rows :
         /\ df_clean.rows[k].idx = top5.rows[i].idx
         /\ top5.rows[i].cells =
              <<Cell(df_clean, df_clean.rows[k], Title),
                Cell(df_clean, df_clean.rows[k], Rating),
                Cell(df_clean, df_clean.rows[k], Year)>>
    /\ \A i, j \in DOMAIN top5.rows :
         i < j => RatingOf(top5, top5.rows[i]) >= RatingOf(top5, top5.rows[j])
    /\ \A k \in LeftOut : \A i \in DOMAIN top5.rows :
         RatingOf(df_clean, df_clean.rows[k]) <= RatingOf(top5, top5.rows[i])

\* more than five cleaned rows, ratings that differ within top5, a row left out
C6_Witness ==
  /\ Passed("top5")
  /\ Len(df_clean.rows) > 5
  /\ Len(top5.rows) = 5
  /\ RatingOf(top5, top5.rows[1]) > RatingOf(top5, top5.rows[5])
  /\ LeftOut # {}

\* the parts a genre text falls into between its commas, as <<from, to>>:
\* a part starts at the head of the text or behind a comma and runs up to
\* the next comma or the end of the text
Parts(g) ==
  LET commas == {i \in DOMAIN g : g[i] = ","}
      stop(a) == CHOOSE b \in (commas \cup {Len(g) + 1}) :
                   b >= a /\ \A c \in commas : c >= a => b <= c
  IN  {<<a, stop(a) - 1>> : a \in {1} \cup {c + 1 : c \in commas}}

\* a part without the blanks around it
Label(g, part) ==
  LET inked == {i \in part[1]..part[2] : g[i] # " "}
  IN  IF inked = {} THEN <<>>
      ELSE SubSeq(g, CHOOSE lo \in inked : \A i \in inked : lo <= i,
                     CHOOSE hi \in inked : \A i \in inked : i <= hi)

GenreText(i) == Cell(df_clean, df_clean.rows[i], Genre).s
Occurs(i, t) == Cardinality({part \in Parts(GenreText(i)) : Label(GenreText(i), part) = t})
Labels ==
  UNION {{Label(GenreText(i), part) : part \in Parts(GenreText(i))} :
           i \in DOMAIN df_clean.rows} \ {<<>>}

RECURSIVE LabelCount(_, _)
LabelCount(t, n) == IF n = 0 THEN 0 ELSE LabelCount(t, n - 1) + Occurs(n, t)

RECURSIVE LabelSum(_, _)
LabelSum(t, n) ==
  IF n = 0 THEN 0
  ELSE LabelSum(t, n - 1) + Occurs(n, t) * RatingOf(df_clean, df_clean.rows[n])

MeanOf(i) == genre_avg.rows[i].cells[2]

\* C7: genre_avg has one row for each distinct label that is a comma-parted,
\* trimmed, non-empty part of a cleaned row's Genre; its value is the mean
\* Rating over all occurrences of the label, and the rows stand in
\* non-increasing order of that mean.
C7_GenreMeans ==
  Passed("chart_avg_rating_by_genre") =>
    /\ Len(genre_avg.rows) = Cardinality(Labels)
    /\ {genre_avg.rows[i].cells[1].s : i \in DOMAIN genre_avg.rows} = Labels
    /\ \A i \in DOMAIN genre_avg.rows :
         LET t == genre_avg.rows[i].cells[1].s
         IN  MeanOf(i).n * LabelCount(t, Len(df_clean.rows))
               = LabelSum(t, Len(df_clean.rows)) * MeanOf(i).d
    /\ \A i, j \in DOMAIN genre_avg.rows :
         i < j => MeanOf(i).n * MeanOf(j).d >= MeanOf(j).n * MeanOf(i).d

\* a Genre with an empty part, a label met three times or more, and two
\* means that differ
C7_Witness ==
  /\ Passed("chart_avg_rating_by_genre")
  /\ \E i \in DOMAIN df_clean.rows :
       \E part \in Parts(GenreText(i)) : Label(GenreText(i), part) = <<>>
  /\ \E i \in DOMAIN genre_avg.rows : MeanOf(i).d >= 3
  /\ \E i, j \in DOMAIN genre_avg.rows :
       MeanOf(i).n * MeanOf(j).d > MeanOf(j).n * MeanOf(i).d

CountAt(i) == per_year.rows[i].cells[2].n

RECURSIVE CountsUpTo(_)
CountsUpTo(n) == IF n = 0 THEN 0 ELSE CountsUpTo(n - 1) + CountAt(n)

\* C8: per_year has one row for each distinct Year of the cleaned frame, in
\* strictly ascending order of Year; its Count is the number of cleaned rows
\* of that Year, and the Counts add up to the number of cleaned rows.
C8_YearCounts ==
  Passed("chart_movies_per_year") =>
    /\ \A i, j \in DOMAIN per_year.rows :
         i < j => YearOf(per_year, per_year.rows[i]) < YearOf(per_year, per_year.rows[j])
    /\ {YearOf(per_year, per_year.rows[i]) : i \in DOMAIN per_year.rows}
         = {YearOf(df_clean, df_clean.rows[k]) : k \in DOMAIN df_clean.rows}
    /\ \A i \in DOMAIN per_year.rows :
         CountAt(i) = Cardinality({k \in DOMAIN df_clean.rows :
                         YearOf(df_clean, df_clean.rows[k]) = YearOf(per_year, per_year.rows[i])})
    /\ CountsUpTo(Len(per_year.rows)) = Len(df_clean.rows)

\* two years or more, one of them counted twice or more
C8_Witness ==
  /\ Passed("chart_movies_per_year")
  /\ Len(per_year.rows) >= 2
  /\ \E i \in DOMAIN per_year.rows : CountAt(i) >= 2

\* C9: a run of main leaves an input file it found as it was, and when the
\* second of two runs in a row has ended the four CSV outputs hold what they
\* held when the first had ended.
C9_Idempotent ==
  /\ startFile.exists => inputFile = startFile
  /\ (run = 2 /\ Ended) => \A f \in Csvs : outFiles[f] = firstRun[f]

\* the second run has ended on the sample the first run created
C9_Witness ==
  /\ run = 2
  /\ pc = "done"
  /\ inputFile = SampleFile
  /\ Len(outFiles[CsvDetails].rows) = 20
  /\ Len(outFiles[CsvTop5].rows) = 5
  /\ \A f \in Csvs : outFiles[f] = firstRun[f]

WriteOrder ==
  <<DataPath, PngGenre, PngYear, CsvDetails, CsvGenre, CsvTop5, CsvYear>>

OnDisk(f) == IF f = DataPath THEN inputFile.exists ELSE outFiles[f].exists

\* C10: a run writes its files in the fixed order, each at most once and
\* none before the output folder exists; a statement that fails ends the run
\* with nothing written after it, so a CSV output is written only after
\* load_and_clean returned and both charts were saved; what was written
\* stays on disk.
C10_LinearPipeline ==
  /\ \A i, j \in DOMAIN written :
       i < j => IndexOf(WriteOrder, written[i]) < IndexOf(WriteOrder, written[j])
  /\ written # <<>> => dirExists
  /\ \A f \in Range(written) : OnDisk(f)
  /\ error # "none" <=> pc = "failed"
  /\ pc = "failed" <=> failedAt # "none"
  /\ \A f \in Csvs \cap Range(written) :
       /\ Passed("chart_movies_per_year")
       /\ {PngGenre, PngYear} \subseteq Range(written)
  /\ failedAt \in {"load_and_clean", "chart_avg_rating_by_genre"}
       => Range(written) \subseteq {DataPath}
  /\ failedAt = "chart_movies_per_year" => Range(written) \subseteq {DataPath, PngGenre}
  /\ pc = "done" => Range(written) \ {DataPath} = OutNames

\* the second chart failed to save: the sample and the first chart are on
\* disk, no CSV output is
C10_Witness ==
  /\ pc = "failed"
  /\ failedAt = "chart_movies_per_year"
  /\ written = <<DataPath, PngGenre>>
  /\ inputFile.exists
  /\ outFiles[PngGenre].exists
  /\ \A f \in Csvs : ~outFiles[f].exists

====
